---- MODULE Spec2Model ----
(***************************************************************************)
(* Chat session controller of frontend/src/App.jsx: the React component    *)
(* state (messages, input, isLoading), the two submit gestures (Enter key  *)
(* and send button), the input's onChange, and the asynchronous            *)
(* sendMessage with its two awaits (fetch, response.json()).               *)
(*                                                                         *)
(* JavaScript runs each handler and each continuation to completion, and   *)
(* React commits the state updates of a handler before the next event is   *)
(* dispatched, so each handler / continuation is one step.                 *)
(*                                                                         *)
(* A JS string is a sequence of one-character strings.  A JS value that    *)
(* can end up as the text of a message is a record [type, chars].          *)
(***************************************************************************)
EXTENDS Integers, Sequences, FiniteSets, TLC

VARIABLES
    messages,   \* useState([])    : sequence of [sender, text]
    input,      \* useState('')    : the text of the input box
    isLoading,  \* useState(false)
    inflight,   \* the sendMessage invocations suspended at an await
    calls,      \* the request bodies handed to fetch, in order of issue
    unhandled,  \* number of sendMessage promises that rejected
    lastEvent   \* the event the last step dispatched (environment input)

vars == <<messages, input, isLoading, inflight, calls, unhandled, lastEvent>>

\* Bound on the number of turns started in one run.
MaxTurns == 2

----------------------------------------------------------------------------
\* JavaScript values

Str(s) == [type |-> "string", chars |-> s]
Undefined == [type |-> "undefined", chars |-> <<>>]
NumberSeven == [type |-> "number", chars |-> <<"7">>]

WhiteSpace == {" ", "\t", "\n"}

\* String.prototype.trim
RECURSIVE TrimStart(_)
TrimStart(s) ==
    IF s # <<>> /\ Head(s) \in WhiteSpace THEN TrimStart(Tail(s)) ELSE s

RECURSIVE TrimEnd(_)
TrimEnd(s) ==
    IF s # <<>> /\ s[Len(s)] \in WhiteSpace
    THEN TrimEnd(SubSeq(s, 1, Len(s) - 1))
    ELSE s

Trim(s) == TrimEnd(TrimStart(s))

\* Variant: the emptiness test without trim
IsBlankNoTrim(s) == s = <<>>

\* !input.trim() : the empty string is the only falsy string
IsBlank(s) == Trim(s) = <<>>

\* The fixed text of the catch block
ErrorText ==
    << "D", "e", "s", "c", "u", "l", "p", "e", ",", " ", "o", "c", "o", "r",
       "r", "e", "u", " ", "u", "m", " ", "e", "r", "r", "o", " ", "a", "o",
       " ", "s", "e", " ", "c", "o", "n", "e", "c", "t", "a", "r", " ", "c",
       "o", "m", " ", "o", " ", "s", "e", "r", "v", "i", "d", "o", "r", "." >>

----------------------------------------------------------------------------
\* Environment inputs

\* Texts the user can leave in the input box
Texts ==
    { <<>>, <<" ">>, <<"a">>, <<" ", "a">>, <<"a", "\t">>,
      <<" ", "a", " ", "b", " ">> }

Keys == {"Enter", "x"}

\* HTTP statuses the backend answers with
Statuses == {200, 404, 500}

\* Reply texts of a well-formed backend answer
ReplyTexts == { <<"o", "k">>, <<" ", "o", "k", "\n">> }

\* Bodies of a response: kind "invalid" does not parse as JSON, "null" is
\* the JSON value null, "object" is a JSON object whose field `response`
\* has the value response (Undefined when the field is absent).
Bodies ==
    { [kind |-> "invalid", response |-> Undefined],
      [kind |-> "null", response |-> Undefined],
      [kind |-> "object", response |-> Undefined],
      [kind |-> "object", response |-> NumberSeven] }
    \cup { [kind |-> "object", response |-> Str(r)] : r \in ReplyTexts }

\* Errors that reach the catch block
FetchError == [name |-> "TypeError", message |-> <<"f", "e", "t", "c", "h">>]
HttpError == [name |-> "Error", message |-> <<"H", "T", "T", "P">>]
ParseError == [name |-> "SyntaxError", message |-> <<"J", "S", "O", "N">>]
NullError == [name |-> "TypeError", message |-> <<"n", "u", "l", "l">>]

BodyDetail(body) ==
    CASE body.kind = "invalid" -> "invalid"
      [] body.kind = "null" -> "null"
      [] body.response.type = "undefined" -> "missing"
      [] body.response.type = "number" -> "number"
      [] OTHER -> "string"

\* An event: its type, a detail, and the value it carries (the field
\* `response` of the parsed body for a json event, Undefined otherwise)
Event(t, d) == [type |-> t, detail |-> d, value |-> Undefined]

JsonEvent(body) ==
    [type |-> "json", detail |-> BodyDetail(body), value |-> body.response]

----------------------------------------------------------------------------
\* Helpers on sequences

Last(s) == s[Len(s)]

RemoveAt(s, i) == SubSeq(s, 1, i - 1) \o SubSeq(s, i + 1, Len(s))

----------------------------------------------------------------------------
\* The component

Init ==
    /\ messages = <<>>
    /\ input = <<>>
    /\ isLoading = FALSE
    /\ inflight = <<>>
    /\ calls = <<>>
    /\ unhandled = 0
    /\ lastEvent = Event("init", "")

\* Variant: the text input without its disabled attribute
InputNeverDisabled == FALSE

\* disabled={isLoading} of the text input
InputDisabled == isLoading

\* disabled={isLoading} of the send button
ButtonDisabled == isLoading

\* response.ok
Ok(status) == status >= 200 /\ status <= 299

\* Variant: the user entry built from the trimmed input
UserMessageTrimmed(text) == [sender |-> "user", text |-> Str(Trim(text))]

\* userMessage = { sender: 'user', text: input }
UserMessage(text) == [sender |-> "user", text |-> Str(text)]

\* Variant: the bot entry built from a field the body does not have
BotMessageWrongField(value) == [sender |-> "bot", text |-> Undefined]

\* botMessage = { sender: 'bot', text: data.response }
BotMessage(value) == [sender |-> "bot", text |-> value]

\* Variant: the catch block showing the message of the caught error
ErrorMessageDetail(error) == [sender |-> "bot", text |-> Str(error.message)]

\* errorMessage of the catch block; the caught error is only logged
ErrorMessage(error) == [sender |-> "bot", text |-> Str(ErrorText)]

\* Variant: the updater overwriting the last entry
AppendMessageOverwrite(prev, m) ==
    IF prev = <<>> THEN <<m>> ELSE [prev EXCEPT ![Len(prev)] = m]

\* Variant: the updater putting the new entry first
AppendMessagePrepend(prev, m) == <<m>> \o prev

\* setMessages(prevMessages => [...prevMessages, m])
AppendMessage(prev, m) == Append(prev, m)

\* Variant: sendMessage without setIsLoading(true)
SendMessageNoLoading ==
    IF IsBlank(input)
    THEN UNCHANGED <<messages, input, isLoading, inflight, calls>>
    ELSE /\ Len(calls) < MaxTurns
         /\ messages' = AppendMessage(messages, UserMessage(input))
         /\ input' = <<>>
         /\ isLoading' = isLoading
         /\ calls' = Append(calls, UserMessage(input).text)
         /\ inflight' = Append(inflight,
                [userMessage |-> UserMessage(input), stage |-> "fetch",
                 base |-> Len(messages)])

\* Variant: sendMessage calling fetch without having appended the user entry
SendMessageNoUserEntry ==
    IF IsBlank(input)
    THEN UNCHANGED <<messages, input, isLoading, inflight, calls>>
    ELSE /\ Len(calls) < MaxTurns
         /\ messages' = messages
         /\ input' = <<>>
         /\ isLoading' = TRUE
         /\ calls' = Append(calls, UserMessage(input).text)
         /\ inflight' = Append(inflight,
                [userMessage |-> UserMessage(input), stage |-> "fetch",
                 base |-> Len(messages)])

\* Variant: sendMessage without setInput('')
SendMessageKeepInput ==
    IF IsBlank(input)
    THEN UNCHANGED <<messages, input, isLoading, inflight, calls>>
    ELSE /\ Len(calls) < MaxTurns
         /\ messages' = AppendMessage(messages, UserMessage(input))
         /\ input' = input
         /\ isLoading' = TRUE
         /\ calls' = Append(calls, UserMessage(input).text)
         /\ inflight' = Append(inflight,
                [userMessage |-> UserMessage(input), stage |-> "fetch",
                 base |-> Len(messages)])

\* Variant: sendMessage calling fetch before the emptiness test
SendMessageCallBeforeTest ==
    IF IsBlank(input)
    THEN /\ Len(calls) < MaxTurns
         /\ calls' = Append(calls, UserMessage(input).text)
         /\ UNCHANGED <<messages, input, isLoading, inflight>>
    ELSE /\ Len(calls) < MaxTurns
         /\ messages' = AppendMessage(messages, UserMessage(input))
         /\ input' = <<>>
         /\ isLoading' = TRUE
         /\ calls' = Append(calls, UserMessage(input).text)
         /\ inflight' = Append(inflight,
                [userMessage |-> UserMessage(input), stage |-> "fetch",
                 base |-> Len(messages)])

\* Variant: sendMessage sending the input state after setInput('')
SendMessageBodyFromState ==
    IF IsBlank(input)
    THEN UNCHANGED <<messages, input, isLoading, inflight, calls>>
    ELSE /\ Len(calls) < MaxTurns
         /\ messages' = AppendMessage(messages, UserMessage(input))
         /\ input' = <<>>
         /\ isLoading' = TRUE
         /\ calls' = Append(calls, Str(input'))
         /\ inflight' = Append(inflight,
                [userMessage |-> UserMessage(input), stage |-> "fetch",
                 base |-> Len(messages)])

\* sendMessage up to its first await: validation, the three state updates
\* and the call of fetch.  base is the length of the transcript when the
\* turn starts (kept for the statement of properties only).
SendMessage ==
    IF IsBlank(input)
    THEN UNCHANGED <<messages, input, isLoading, inflight, calls>>
    ELSE /\ Len(calls) < MaxTurns
         /\ messages' = AppendMessage(messages, UserMessage(input))
         /\ input' = <<>>
         /\ isLoading' = TRUE
         /\ calls' = Append(calls, UserMessage(input).text)
         /\ inflight' = Append(inflight,
                [userMessage |-> UserMessage(input), stage |-> "fetch",
                 base |-> Len(messages)])

\* onChange={(e) => setInput(e.target.value)}; a disabled input cannot be
\* edited
Change(t) ==
    /\ ~InputDisabled
    /\ input' = t
    /\ lastEvent' = Event("change", "")
    /\ UNCHANGED <<messages, isLoading, inflight, calls, unhandled>>

\* A key pressed on the text input.  A disabled input receives no key
\* events; otherwise handleKeyDown runs.
KeyDown(key) ==
    /\ lastEvent' = Event("keydown", key)
    /\ unhandled' = unhandled
    /\ IF ~InputDisabled /\ key = "Enter" /\ ~isLoading
       THEN SendMessage
       ELSE UNCHANGED <<messages, input, isLoading, inflight, calls>>

\* A click on the send button.  A disabled button dispatches no click.
Click ==
    /\ lastEvent' = Event("click", "")
    /\ unhandled' = unhandled
    /\ IF ~ButtonDisabled
       THEN SendMessage
       ELSE UNCHANGED <<messages, input, isLoading, inflight, calls>>

\* Variant: the catch block without the finally block
CatchNoFinally(i, error) ==
    /\ messages' = AppendMessage(messages, ErrorMessage(error))
    /\ isLoading' = isLoading
    /\ inflight' = RemoveAt(inflight, i)
    /\ unhandled' = unhandled

\* catch (error) { ... } finally { setIsLoading(false) } of invocation i
CatchFinally(i, error) ==
    /\ messages' = AppendMessage(messages, ErrorMessage(error))
    /\ isLoading' = FALSE
    /\ inflight' = RemoveAt(inflight, i)
    /\ unhandled' = unhandled

\* The promise of fetch rejects (network failure)
FetchRejects(i) ==
    /\ i \in 1..Len(inflight)
    /\ inflight[i].stage = "fetch"
    /\ lastEvent' = Event("fetch", "reject")
    /\ CatchFinally(i, FetchError)
    /\ UNCHANGED <<input, calls>>

\* The promise of fetch resolves with a response of the given status
FetchResolves(i, status) ==
    /\ i \in 1..Len(inflight)
    /\ inflight[i].stage = "fetch"
    /\ UNCHANGED <<input, calls>>
    /\ IF ~Ok(status)
       THEN /\ lastEvent' = Event("fetch", "notOk")
            /\ CatchFinally(i, HttpError)
       ELSE /\ lastEvent' = Event("fetch", "ok")
            /\ inflight' = [inflight EXCEPT ![i].stage = "json"]
            /\ UNCHANGED <<messages, isLoading, unhandled>>

\* The promise of response.json() settles for a response with this body
JsonSettles(i, body) ==
    /\ i \in 1..Len(inflight)
    /\ inflight[i].stage = "json"
    /\ lastEvent' = JsonEvent(body)
    /\ UNCHANGED <<input, calls>>
    /\ CASE body.kind = "invalid" -> CatchFinally(i, ParseError)
         [] body.kind = "null" -> CatchFinally(i, NullError)
         [] OTHER ->
              /\ messages' = AppendMessage(messages, BotMessage(body.response))
              /\ isLoading' = FALSE
              /\ inflight' = RemoveAt(inflight, i)
              /\ unhandled' = unhandled

Next ==
    \/ \E t \in Texts : Change(t)
    \/ \E key \in Keys : KeyDown(key)
    \/ Click
    \/ \E i \in 1..MaxTurns : FetchRejects(i)
    \/ \E i \in 1..MaxTurns, status \in Statuses : FetchResolves(i, status)
    \/ \E i \in 1..MaxTurns, body \in Bodies : JsonSettles(i, body)

Spec == Init /\ [][Next]_vars

\* fetch and response.json() eventually settle
Settles ==
    \/ \E i \in 1..MaxTurns : FetchRejects(i)
    \/ \E i \in 1..MaxTurns, status \in Statuses : FetchResolves(i, status)
    \/ \E i \in 1..MaxTurns, body \in Bodies : JsonSettles(i, body)

LiveSpec == Spec /\ WF_vars(Settles)

TypeOK ==
    /\ isLoading \in BOOLEAN
    /\ input \in Texts
    /\ Len(calls) <= MaxTurns
    /\ unhandled \in Nat

----------------------------------------------------------------------------
\* Vocabulary of the properties

\* The step dispatches a submit gesture (a click on the send button or the
\* Enter key on the input)
SubmitStep ==
    \/ lastEvent' = Event("click", "")
    \/ lastEvent' = Event("keydown", "Enter")

\* The step applies a gateway failure: fetch rejected, HTTP status not ok,
\* or a body that does not parse as JSON
FailureStep ==
    \/ lastEvent' = Event("fetch", "reject")
    \/ lastEvent' = Event("fetch", "notOk")
    \/ lastEvent' = Event("json", "invalid")

\* The step applies the outcome of a turn (an invocation leaves its await
\* for good)
ResolveStep == Len(inflight') < Len(inflight)

\* The text is empty or consists of whitespace only
OnlyWhiteSpace(s) == \A k \in 1..Len(s) : s[k] \in WhiteSpace

UserCount(ms) == Cardinality({k \in 1..Len(ms) : ms[k].sender = "user"})

BotCount(ms) == Cardinality({k \in 1..Len(ms) : ms[k].sender = "bot"})

----------------------------------------------------------------------------
\* C1 Mutual exclusion: at most one request is outstanding and at most one
\* user entry is unanswered in every reachable state, and no step taken
\* while isLoading is true (a submit gesture in particular) adds a user
\* entry or issues a gateway call.
C1_MutualExclusion ==
    /\ [](Len(inflight) <= 1)
    /\ [](UserCount(messages) - BotCount(messages) <= 1)
    /\ [][isLoading =>
            /\ UserCount(messages') = UserCount(messages)
            /\ calls' = calls]_vars

\* A click on the send button arrived while the turn was awaiting
\* response.json(), and was dropped.
C1_Witness ==
    /\ lastEvent = Event("click", "")
    /\ isLoading
    /\ Len(inflight) = 1
    /\ inflight[1].stage = "json"
    /\ Len(calls) = 1
    /\ Len(messages) = 1

\* C2 Turn atomicity: when the outcome of a turn is applied, the transcript
\* is exactly 2 longer than immediately before the submit of that turn, the
\* two new entries are a user entry followed by a bot entry, and isLoading
\* is false.
C2_TurnAtomicity ==
    [][\A i \in 1..Len(inflight) :
          (ResolveStep /\ inflight' = RemoveAt(inflight, i)) =>
             /\ Len(messages') = inflight[i].base + 2
             /\ messages'[inflight[i].base + 1].sender = "user"
             /\ messages'[inflight[i].base + 2].sender = "bot"
             /\ ~isLoading']_vars

\* The second turn has been resolved.
C2_Witness ==
    /\ inflight = <<>>
    /\ Len(calls) = 2
    /\ Len(messages) = 4
    /\ ~isLoading

\* C3 Failure path: a step that applies a gateway failure (fetch rejected,
\* status not ok, body not JSON) appends exactly one bot entry whose text is
\* the fixed text of the catch block, sets isLoading to false, and no
\* sendMessage promise ever rejects.
C3_FailurePath ==
    /\ [](unhandled = 0)
    /\ [][FailureStep =>
            /\ messages' =
                 Append(messages, [sender |-> "bot", text |-> Str(ErrorText)])
            /\ ~isLoading'
            /\ unhandled' = unhandled]_vars

\* A body that is not JSON has been turned into the apology entry.
C3_Witness ==
    /\ lastEvent = Event("json", "invalid")
    /\ Len(messages) = 2
    /\ messages[2] = [sender |-> "bot", text |-> Str(ErrorText)]
    /\ ~isLoading

\* C4 Malformed reply (as claimed): a step that applies a JSON object whose
\* field `response` is absent or not a string appends a bot entry carrying
\* the fixed apology text, and isLoading is false afterwards.
C4_MalformedReplyIsError ==
    [][(lastEvent'.type = "json" /\ lastEvent'.detail \in {"missing", "number"})
         => /\ Last(messages').text = Str(ErrorText)
            /\ ~isLoading']_vars

\* The step is a submit gesture with a non-blank input while not loading
ValidSubmitStep == SubmitStep /\ ~isLoading /\ ~OnlyWhiteSpace(input)

C6_TrimAndDrop ==
    [][(SubmitStep /\ OnlyWhiteSpace(input)) =>
          UNCHANGED <<messages, isLoading, input, calls, inflight>>]_vars

\* A click with a whitespace-only input was dropped.
C6_Witness ==
    /\ lastEvent = Event("click", "")
    /\ input = <<" ">>
    /\ ~isLoading
    /\ messages = <<>>
    /\ calls = <<>>

\* C7 Append-only: every step leaves the transcript unchanged or extends it
\* by one entry at the end; the entries already present keep their position,
\* sender and text.
C7_AppendOnly ==
    [][/\ Len(messages') \in {Len(messages), Len(messages) + 1}
       /\ SubSeq(messages', 1, Len(messages)) = messages]_vars

\* The transcript has grown past one turn.
C7_Witness == Len(messages) >= 3

\* C8 Success path: a step that applies a well-formed reply with text r
\* leaves the transcript ending with the user entry of the submitted text
\* followed by the bot entry with text r, and isLoading false.
C8_SuccessPath ==
    [][(lastEvent'.type = "json" /\ lastEvent'.detail = "string") =>
          /\ Len(messages') = Len(messages) + 1
          /\ Len(messages') >= 2
          /\ SubSeq(messages', Len(messages') - 1, Len(messages')) =
               << [sender |-> "user", text |-> Last(calls)],
                  [sender |-> "bot", text |-> lastEvent'.value] >>
          /\ lastEvent'.value.type = "string"
          /\ ~isLoading']_vars

\* The reply "ok" to the input "a" has been applied.
C8_Witness ==
    /\ lastEvent.type = "json"
    /\ lastEvent.detail = "string"
    /\ ~isLoading
    /\ messages = << [sender |-> "user", text |-> Str(<<"a">>)],
                     [sender |-> "bot", text |-> Str(<<"o", "k">>)] >>

\* C9 Return to Idle / no latching: provided fetch and response.json()
\* settle, isLoading true leads to isLoading false; and a valid submit made
\* when the last entry is the apology of a failed turn starts a turn: one
\* user entry appended, isLoading set, one gateway call issued.
C9_ReturnToIdle ==
    /\ isLoading ~> ~isLoading
    /\ [][(ValidSubmitStep /\ messages # <<>>
             /\ Last(messages).text = Str(ErrorText)) =>
            /\ Len(messages') = Len(messages) + 1
            /\ Last(messages').sender = "user"
            /\ isLoading'
            /\ Len(calls') = Len(calls) + 1
            /\ Len(inflight') = 1]_vars

\* A turn has started right after a failed turn.
C9_Witness ==
    /\ Len(messages) = 3
    /\ messages[2].text = Str(ErrorText)
    /\ messages[3].sender = "user"
    /\ isLoading
    /\ Len(calls) = 2
    /\ Len(inflight) = 1

\* C10 Ordering: the user entry of every call issued is in the transcript
\* (the k-th call has its user entry at position 2k-1, with the text of the
\* call), and the entry after it is the bot entry of that turn, so that no
\* entry of turn k+1 comes before the bot entry of turn k.
C10_Ordering ==
    /\ Len(messages) <= 2 * Len(calls)
    /\ \A k \in 1..Len(calls) :
          /\ 2 * k - 1 <= Len(messages)
          /\ messages[2 * k - 1] = [sender |-> "user", text |-> calls[k]]
          /\ (2 * k <= Len(messages) => messages[2 * k].sender = "bot")

\* The second call is in flight: its user entry follows the bot entry of the
\* first turn.
C10_Witness ==
    /\ Len(calls) = 2
    /\ Len(messages) = 3
    /\ Len(inflight) = 1
    /\ inflight[1].stage = "fetch"

\* The step dispatches an edit of the input box
ChangeStep == lastEvent' = Event("change", "")

\* Some edit of the input box can be dispatched
CanEdit == ENABLED (\E t \in Texts : Change(t))

\* C11 Editing (as claimed): an edit of the input is possible in every
\* state, whether isLoading is false or true, and an edit changes only
\* input: messages, isLoading, the calls and the invocations in flight are
\* unchanged.
C11_EditInBothStates ==
    /\ [](CanEdit)
    /\ [][ChangeStep => UNCHANGED <<messages, isLoading, calls, inflight>>]_vars

\* C11 (amended): an edit of the input is possible exactly when isLoading
\* is false (the input is disabled while a reply is awaited), and an edit
\* changes only input.
C11_EditOnlyWhenIdle ==
    /\ [](CanEdit <=> ~isLoading)
    /\ [][ChangeStep =>
            /\ ~isLoading
            /\ UNCHANGED <<messages, isLoading, calls, inflight>>]_vars

\* The input was edited after a resolved turn, and nothing else moved.
C11_Witness ==
    /\ lastEvent = Event("change", "")
    /\ input = <<" ", "a">>
    /\ ~isLoading
    /\ Len(messages) = 2
    /\ Len(calls) = 1
    /\ inflight = <<>>

\* The step applies a gateway outcome or an intermediate result of the
\* gateway (a settled fetch or response.json())
OutcomeStep == lastEvent'.type \in {"fetch", "json"}

\* C12 Clearing of the input: a valid submit clears input in the very step
\* that appends the user entry and sets isLoading; a step that applies a
\* gateway outcome, success or failure, leaves input unchanged.
C12_InputClearedAtSubmit ==
    /\ [][ValidSubmitStep =>
            /\ input' = <<>>
            /\ Len(messages') = Len(messages) + 1
            /\ Last(messages').sender = "user"
            /\ isLoading']_vars
    /\ [][OutcomeStep => input' = input]_vars

\* A click has started a turn from the input "a\t" and the input box is
\* empty while the request is still awaiting fetch.
C12_Witness ==
    /\ lastEvent = Event("click", "")
    /\ input = <<>>
    /\ isLoading
    /\ Len(inflight) = 1
    /\ inflight[1].stage = "fetch"
    /\ Last(calls) = Str(<<"a", "\t">>)

\* C13 One call per turn, no retry: in every reachable state the number of
\* gateway calls issued equals the number of user entries in the
\* transcript; a step that applies a gateway outcome issues no call, and a
\* submit with an empty or whitespace-only input issues none.
C13_OneCallPerTurn ==
    /\ [](Len(calls) = UserCount(messages))
    /\ [][OutcomeStep => calls' = calls]_vars
    /\ [][(SubmitStep /\ OnlyWhiteSpace(input)) => calls' = calls]_vars

\* After a failed turn a whitespace-only submit was dropped: one call was
\* issued in all, for the one user entry.
C13_Witness ==
    /\ lastEvent = Event("click", "")
    /\ input = <<" ">>
    /\ ~isLoading
    /\ Len(messages) = 2
    /\ messages[2].text = Str(ErrorText)
    /\ Len(calls) = 1

\* C14 Busy tracks the in-flight request: the initial state has an empty
\* transcript and isLoading false, and in every reachable state isLoading
\* is true if and only if exactly one request is outstanding, and there is
\* never more than one outstanding request.
C14_BusyTracksRequest ==
    /\ (messages = <<>> /\ ~isLoading /\ inflight = <<>>)
    /\ [](isLoading <=> Len(inflight) = 1)
    /\ [](Len(inflight) \in {0, 1})

\* The second request is outstanding, at response.json(), and isLoading is
\* true.
C14_Witness ==
    /\ isLoading
    /\ Len(inflight) = 1
    /\ inflight[1].stage = "json"
    /\ Len(calls) = 2
    /\ lastEvent = Event("fetch", "ok")

\* The step shows one of the effects of a turn start
TurnStartEffect ==
    \/ Len(calls') # Len(calls)
    \/ UserCount(messages') # UserCount(messages)
    \/ (isLoading' /\ ~isLoading)
    \/ Len(inflight') > Len(inflight)

\* C15 Atomic turn start: a step that shows any effect of a turn start
\* shows all of them (user entry appended, input cleared, isLoading set,
\* one call issued) and is taken with no turn underway; a submit gesture
\* dispatched while isLoading, the one right after a turn start included,
\* changes nothing; and whenever isLoading is true the invocation of the
\* turn is suspended at an await of the gateway call.
C15_AtomicTurnStart ==
    /\ [][TurnStartEffect =>
            /\ ~isLoading
            /\ inflight = <<>>
            /\ messages' =
                 Append(messages, [sender |-> "user", text |-> Str(input)])
            /\ input' = <<>>
            /\ isLoading'
            /\ calls' = Append(calls, Str(input))
            /\ Len(inflight') = 1]_vars
    /\ [][(SubmitStep /\ isLoading) =>
            UNCHANGED <<messages, input, isLoading, calls, inflight>>]_vars
    /\ [](isLoading =>
            (Len(inflight) = 1 /\ inflight[1].stage \in {"fetch", "json"}))

\* The second turn has just been started with the Enter key and its fetch
\* has not settled: any further submit gesture meets isLoading.
C15_Witness ==
    /\ lastEvent = Event("keydown", "Enter")
    /\ isLoading
    /\ Len(inflight) = 1
    /\ inflight[1].stage = "fetch"
    /\ Len(calls) = 2
    /\ Len(messages) = 3

\* C16 Transcript shape: the transcript alternates user, bot, user, bot,
\* ... starting with a user entry; its length is even whenever isLoading is
\* false and odd, ending with a user entry, whenever isLoading is true.
C16_TranscriptShape ==
    /\ \A k \in 1..Len(messages) :
          messages[k].sender = (IF k % 2 = 1 THEN "user" ELSE "bot")
    /\ (~isLoading => Len(messages) % 2 = 0)
    /\ (isLoading =>
          (Len(messages) % 2 = 1 /\ Last(messages).sender = "user"))

\* Two resolved turns: user, bot, user, bot, and isLoading false.
C16_Witness ==
    /\ Len(messages) = 4
    /\ ~isLoading
    /\ messages[3].sender = "user"
    /\ messages[4].sender = "bot"

\* The texts of the user entries of a transcript, in order
UserTexts(ms) ==
    LET us == SelectSeq(ms, LAMBDA m : m.sender = "user")
    IN  [k \in 1..Len(us) |-> us[k].text]

\* C17 Request matches transcript: the texts of the requests issued are,
\* in order, the texts of the user entries of the transcript, the input
\* having been cleared in between or not; and every user entry has a string
\* text that is non-empty after trimming.
C17_RequestMatchesTranscript ==
    /\ UserTexts(messages) = calls
    /\ \A k \in 1..Len(messages) :
          messages[k].sender = "user" =>
             /\ messages[k].text.type = "string"
             /\ Trim(messages[k].text.chars) # <<>>

\* The request of the second turn carries "a\t", the text of its user
\* entry, while the input box has already been cleared.
C17_Witness ==
    /\ Len(calls) = 2
    /\ Last(calls) = Str(<<"a", "\t">>)
    /\ Last(messages) = [sender |-> "user", text |-> Str(<<"a", "\t">>)]
    /\ input = <<>>
    /\ isLoading
====
